---- MODULE Spec2Model ----
(***************************************************************************)
(* Q&A service (backend/app/services/qa_service.py): questions, answers,   *)
(* votes, answer acceptance, notifications, over a document store.         *)
(*                                                                         *)
(* Every awaited store operation of a service method is one atomic step;   *)
(* a method in progress is a slot of `call` holding its position (pc), its *)
(* arguments and its local variables.                                      *)
(*                                                                         *)
(* Document keys carry their BSON type: the store matches {"_id": k} only  *)
(* against a key of the same type and value, so a 24-hex string never      *)
(* matches the ObjectId it spells.                                         *)
(***************************************************************************)
EXTENDS Integers, FiniteSets, Sequences, TLC

\* ------------------------------------------------------------------ bounds
MaxQuestions == 1
MaxAnswers == 2
MaxVoteCalls == 4
MaxRaceCalls == 4
MaxAcceptCalls == 5
MaxAcceptRaceCalls == 5
MaxNotifyCalls == 4
MaxDeleteCalls == 4
MaxRetryCalls == 4
MaxAnswerCalls == 5
MaxCorpus == 4
MaxLimit == 2
MaxPage == 2
MaxReadCorpus == 3

Users == {"u1", "u2"}
Procs == {"p1", "p2"}
Ids == 1..(MaxQuestions + MaxAnswers)

UPVOTE == "upvote"
DOWNVOTE == "downvote"
VoteType == {UPVOTE, DOWNVOTE}

\* ------------------------------------------------------------------- keys
NoKey == [t |-> "none", n |-> 0]

\* bson.ObjectId(x): x a valid 24-hex string or an ObjectId
ObjectId(k) == [t |-> "oid", n |-> k.n]

\* str(oid)
str(k) == [t |-> "str", n |-> k.n]

VARIABLES
    questions,      \* collection "questions": set of documents
    answers,        \* collection "answers"
    votes,          \* collection "votes"
    notifications,  \* collection "notifications"
    user_stats,     \* collection "user_stats": user -> counters (upserted)
    call,           \* the service calls in progress, one slot per task
    key_type,       \* how the calling layer represents ids: "str" or "oid"
    next_oid,       \* ObjectId() generation
    next_uuid,      \* uuid.uuid4() generation
    ncalls,         \* number of calls issued so far
    snap,           \* the store when the latest sequential call was issued
    intent,         \* per actor and target, the vote the actor last asked for
    sim             \* the latest get_similar_questions call and its result

Store == <<questions, answers, votes, notifications, user_stats>>
vars == <<questions, answers, votes, notifications, user_stats, call,
          key_type, next_oid, next_uuid, ncalls, snap, intent, sim>>

\* The key a caller passes for document number n.
Arg(n) == [t |-> key_type, n |-> n]

\* The ids callers ask for: those of the stored documents and one that is absent.
QuestionArgs == {d._id.n : d \in questions} \cup {next_oid}
AnswerArgs == {d._id.n : d \in answers} \cup {next_oid}

Idle ==
    [op |-> "none", pc |-> "idle", ret |-> "none", user_id |-> "u1",
     question_id |-> NoKey, answer_id |-> NoKey, vote_type |-> UPVOTE,
     existing_vote |-> 0, old_vote_type |-> UPVOTE, author_id |-> "u1"]

\* no get_similar_questions call has been made
NoSim == [question_id |-> NoKey, limit |-> 0, index |-> "none", hits |-> 0, path |-> "none", ret |-> <<>>]

Init ==
    /\ sim = NoSim
    /\ questions = {}
    /\ answers = {}
    /\ votes = {}
    /\ notifications = {}
    /\ user_stats = [u \in Users |-> [answers_given |-> 0, accepted_answers |-> 0]]
    /\ call = [p \in Procs |-> Idle]
    /\ key_type \in {"str", "oid"}
    /\ next_oid = 1
    /\ next_uuid = 1
    /\ ncalls = 0
    /\ snap = <<{}, {}, {}, {}, [u \in Users |-> [answers_given |-> 0, accepted_answers |-> 0]]>>
    /\ intent = [u \in Users |-> [n \in Ids |-> "none"]]

\* --------------------------------------------------------- store helpers
\* collection.update_one({"_id": k}, {"$inc": {...}}) on a votable document
IncVotes(coll, k, du, dd, dc) ==
    {IF d._id = k
        THEN [d EXCEPT !.upvotes = @ + du, !.downvotes = @ + dd, !.vote_count = @ + dc]
        ELSE d : d \in coll}

\* the $inc a vote of type vt adds
AddVote(coll, k, vt) ==
    IF vt = UPVOTE THEN IncVotes(coll, k, 1, 0, 1) ELSE IncVotes(coll, k, 0, 1, -1)

\* TakeVote with the $inc of remove_vote's counter update, which moves
\* vote_count by -1 whichever type is taken back
TakeVote_count_down(coll, k, vt) ==
    IF vt = UPVOTE THEN IncVotes(coll, k, -1, 0, -1) ELSE IncVotes(coll, k, 0, -1, -1)

\* the $inc that takes back a vote of type vt
TakeVote(coll, k, vt) ==
    IF vt = UPVOTE THEN IncVotes(coll, k, -1, 0, -1) ELSE IncVotes(coll, k, 0, -1, 1)

\* _increment_user_stat(user_id, field)
IncrementUserStat(u, field) ==
    IF field = "answers_given"
        THEN [user_stats EXCEPT ![u].answers_given = @ + 1]
        ELSE [user_stats EXCEPT ![u].accepted_answers = @ + 1]

\* _create_notification(user_id, notification_type, related_id)
CreateNotification(u, type, related) ==
    notifications \cup {[_id |-> next_uuid, user_id |-> u, type |-> type, related_id |-> related]}

\* ------------------------------------------------------- call bookkeeping
Goto(p, label) == call' = [call EXCEPT ![p].pc = label]

\* the method returns r (or raises, r = "NameError"); its locals are dropped
Return(p, r) ==
    call' = [call EXCEPT ![p] =
        [Idle EXCEPT !.op = call[p].op, !.ret = r, !.user_id = call[p].user_id,
                     !.question_id = call[p].question_id, !.answer_id = call[p].answer_id,
                     !.vote_type = call[p].vote_type]]

Invoke(p, op, first, u, q, a, vt) ==
    /\ call[p].pc = "idle"
    /\ call' = [call EXCEPT ![p] =
        [Idle EXCEPT !.op = op, !.pc = first, !.ret = "pending", !.user_id = u,
                     !.question_id = q, !.answer_id = a, !.vote_type = vt]]
    /\ UNCHANGED <<questions, answers, votes, notifications, user_stats,
                   key_type, next_oid, next_uuid, sim>>

At(p, op, label) == call[p].op = op /\ call[p].pc = label

IsVote(p) == call[p].op \in {"vote_question", "vote_answer"}

Done(p) == call[p].pc = "idle"

\* ------------------------------------------------------- create_question
call_create_question(p) ==
    /\ Cardinality(questions) + Cardinality({r \in Procs : call[r].pc = "cq_insert"}) < MaxQuestions
    /\ \E u \in Users : Invoke(p, "create_question", "cq_insert", u, NoKey, NoKey, UPVOTE)
    /\ UNCHANGED intent

\* insert_one(question_doc), then get_question_by_id(str(inserted_id)), which
\* raises NameError (actual_answer_count) once the document and author are found
create_question(p) ==
    /\ At(p, "create_question", "cq_insert")
    /\ questions' = questions \cup
         {[_id |-> [t |-> "oid", n |-> next_oid], author_id |-> call[p].user_id,
           answer_count |-> 0, has_accepted_answer |-> FALSE,
           accepted_answer_id |-> NoKey,
           upvotes |-> 0, downvotes |-> 0, vote_count |-> 0]}
    /\ next_oid' = next_oid + 1
    /\ Return(p, "NameError")
    /\ UNCHANGED <<answers, votes, notifications, user_stats, key_type, next_uuid,
                   ncalls, snap, intent, sim>>

\* --------------------------------------------------------- create_answer
call_create_answer(p) ==
    /\ Cardinality(answers) + Cardinality({r \in Procs : call[r].op = "create_answer" /\ call[r].pc # "idle"}) < MaxAnswers
    /\ \E u \in Users, n \in QuestionArgs :
         Invoke(p, "create_answer", "ca_find", u, Arg(n), NoKey, UPVOTE)
    /\ UNCHANGED intent

\* question = questions.find_one({"_id": ObjectId(question_id)})
create_answer_find(p) ==
    /\ At(p, "create_answer", "ca_find")
    /\ LET found == {d \in questions : d._id = ObjectId(call[p].question_id)}
       IN IF found = {}
             THEN Return(p, "None")
             ELSE \E d \in found :
                    call' = [call EXCEPT ![p].pc = "ca_insert", ![p].author_id = d.author_id]
    /\ UNCHANGED <<questions, answers, votes, notifications, user_stats, key_type,
                   next_oid, next_uuid, ncalls, snap, intent, sim>>

\* answer_id = ObjectId(); answers.insert_one(answer_doc)
create_answer_insert(p) ==
    /\ At(p, "create_answer", "ca_insert")
    /\ answers' = answers \cup
         {[_id |-> [t |-> "oid", n |-> next_oid], question_id |-> call[p].question_id,
           author_id |-> call[p].user_id, is_accepted |-> FALSE,
           upvotes |-> 0, downvotes |-> 0, vote_count |-> 0]}
    /\ next_oid' = next_oid + 1
    /\ call' = [call EXCEPT ![p].pc = "ca_count", ![p].answer_id = [t |-> "oid", n |-> next_oid]]
    /\ UNCHANGED <<questions, votes, notifications, user_stats, key_type, next_uuid,
                   ncalls, snap, intent, sim>>

\* questions.update_one({"_id": question_id}, {"$inc": {"answer_count": 1}})
create_answer_count(p) ==
    /\ At(p, "create_answer", "ca_count")
    /\ questions' = {IF d._id = call[p].question_id
                        THEN [d EXCEPT !.answer_count = @ + 1] ELSE d : d \in questions}
    /\ Goto(p, "ca_stat")
    /\ UNCHANGED <<answers, votes, notifications, user_stats, key_type, next_oid,
                   next_uuid, ncalls, snap, intent, sim>>

\* _increment_user_stat(author_id, "answers_given")
create_answer_stat(p) ==
    /\ At(p, "create_answer", "ca_stat")
    /\ user_stats' = IncrementUserStat(call[p].user_id, "answers_given")
    /\ Goto(p, "ca_notify")
    /\ UNCHANGED <<questions, answers, votes, notifications, key_type, next_oid,
                   next_uuid, ncalls, snap, intent, sim>>

\* notification for the question author unless it is the answerer; then
\* _get_answer_by_id(answer_id, user_id=user_id) raises NameError (user_id)
create_answer_notify(p) ==
    /\ At(p, "create_answer", "ca_notify")
    /\ IF call[p].author_id # call[p].user_id
          THEN /\ notifications' = CreateNotification(call[p].author_id, "question_answered",
                                                       call[p].question_id)
               /\ next_uuid' = next_uuid + 1
          ELSE UNCHANGED <<notifications, next_uuid>>
    /\ Return(p, "NameError")
    /\ UNCHANGED <<questions, answers, votes, user_stats, key_type, next_oid,
                   ncalls, snap, intent, sim>>

\* --------------------------------------------------------- vote_question
call_vote_question(p) ==
    /\ \E u \in Users, n \in QuestionArgs, vt \in VoteType :
         /\ Invoke(p, "vote_question", "vq_find", u, Arg(n), NoKey, vt)
         /\ intent' = IF \E d \in questions : d._id.n = n
                         THEN [intent EXCEPT ![u][n] = vt] ELSE intent

\* question = questions.find_one({"_id": ObjectId(question_id)})
vote_question_find(p) ==
    /\ At(p, "vote_question", "vq_find")
    /\ IF \E d \in questions : d._id = ObjectId(call[p].question_id)
          THEN Goto(p, "vq_existing")
          ELSE Return(p, "None")
    /\ UNCHANGED <<questions, answers, votes, notifications, user_stats, key_type,
                   next_oid, next_uuid, ncalls, snap, intent, sim>>

\* existing_vote = votes.find_one({"question_id": question_id, "user_id": user_id})
vote_question_existing(p) ==
    /\ At(p, "vote_question", "vq_existing")
    /\ LET found == {v \in votes : /\ v.field = "question_id"
                                   /\ v.target = call[p].question_id
                                   /\ v.user_id = call[p].user_id}
       IN IF found = {}
             THEN Goto(p, "vq_insert")
             ELSE \E v \in found :
                    call' = [call EXCEPT ![p].pc = "vq_set", ![p].existing_vote = v._id,
                                         ![p].old_vote_type = v.vote_type]
    /\ UNCHANGED <<questions, answers, votes, notifications, user_stats, key_type,
                   next_oid, next_uuid, ncalls, snap, intent, sim>>

\* the result of the closing get_question_by_id(question_id, user_id=user_id):
\* NameError (actual_answer_count) when the question is found, else None
GetQuestionById(qs, k) ==
    IF \E d \in qs : d._id = ObjectId(k) THEN "NameError" ELSE "None"

\* vote_question_set without the old_vote_type != vote_type test: the vote
\* is counted again
vote_question_set_recount(p) ==
    /\ At(p, "vote_question", "vq_set")
    /\ votes' = {IF v._id = call[p].existing_vote
                    THEN [v EXCEPT !.vote_type = call[p].vote_type] ELSE v : v \in votes}
    /\ IF call[p].old_vote_type # call[p].vote_type
          THEN Goto(p, "vq_dec")
          ELSE Goto(p, "vq_inc")
    /\ UNCHANGED <<questions, answers, notifications, user_stats, key_type,
                   next_oid, next_uuid, ncalls, snap, intent, sim>>

\* votes.update_one({"_id": existing_vote["_id"]}, {"$set": {"vote_type": vote_type}})
vote_question_set(p) ==
    /\ At(p, "vote_question", "vq_set")
    /\ votes' = {IF v._id = call[p].existing_vote
                    THEN [v EXCEPT !.vote_type = call[p].vote_type] ELSE v : v \in votes}
    /\ IF call[p].old_vote_type # call[p].vote_type
          THEN Goto(p, "vq_dec")
          ELSE Return(p, GetQuestionById(questions, call[p].question_id))
    /\ UNCHANGED <<questions, answers, notifications, user_stats, key_type,
                   next_oid, next_uuid, ncalls, snap, intent, sim>>

\* the $inc that takes the old vote back
vote_question_dec(p) ==
    /\ At(p, "vote_question", "vq_dec")
    /\ questions' = TakeVote(questions, ObjectId(call[p].question_id), call[p].old_vote_type)
    /\ Goto(p, "vq_inc")
    /\ UNCHANGED <<answers, votes, notifications, user_stats, key_type,
                   next_oid, next_uuid, ncalls, snap, intent, sim>>

\* vote_question_insert as an upsert keyed on the target alone: the record of
\* another actor on the same question is replaced
vote_question_insert_by_target(p) ==
    /\ At(p, "vote_question", "vq_insert")
    /\ votes' = {v \in votes : v.target # call[p].question_id} \cup
         {[_id |-> next_uuid, field |-> "question_id", target |-> call[p].question_id,
           user_id |-> call[p].user_id, vote_type |-> call[p].vote_type]}
    /\ next_uuid' = next_uuid + 1
    /\ Goto(p, "vq_inc")
    /\ UNCHANGED <<questions, answers, notifications, user_stats, key_type,
                   next_oid, ncalls, snap, intent, sim>>

\* votes.insert_one(vote_doc)
vote_question_insert(p) ==
    /\ At(p, "vote_question", "vq_insert")
    /\ votes' = votes \cup
         {[_id |-> next_uuid, field |-> "question_id", target |-> call[p].question_id,
           user_id |-> call[p].user_id, vote_type |-> call[p].vote_type]}
    /\ next_uuid' = next_uuid + 1
    /\ Goto(p, "vq_inc")
    /\ UNCHANGED <<questions, answers, notifications, user_stats, key_type,
                   next_oid, ncalls, snap, intent, sim>>

\* the $inc that adds the new vote, then the closing read
vote_question_inc(p) ==
    /\ At(p, "vote_question", "vq_inc")
    /\ questions' = AddVote(questions, ObjectId(call[p].question_id), call[p].vote_type)
    /\ Return(p, GetQuestionById(questions', call[p].question_id))
    /\ UNCHANGED <<answers, votes, notifications, user_stats, key_type,
                   next_oid, next_uuid, ncalls, snap, intent, sim>>

\* ----------------------------------------------------------- vote_answer
call_vote_answer(p) ==
    /\ \E u \in Users, n \in AnswerArgs, vt \in VoteType :
         /\ Invoke(p, "vote_answer", "va_find", u, NoKey, Arg(n), vt)
         /\ intent' = IF \E d \in answers : d._id.n = n
                         THEN [intent EXCEPT ![u][n] = vt] ELSE intent

\* answer = answers.find_one({"_id": answer_id})
vote_answer_find(p) ==
    /\ At(p, "vote_answer", "va_find")
    /\ IF \E d \in answers : d._id = call[p].answer_id
          THEN Goto(p, "va_existing")
          ELSE Return(p, "None")
    /\ UNCHANGED <<questions, answers, votes, notifications, user_stats, key_type,
                   next_oid, next_uuid, ncalls, snap, intent, sim>>

\* existing_vote = votes.find_one({"answer_id": answer_id, "user_id": user_id})
vote_answer_existing(p) ==
    /\ At(p, "vote_answer", "va_existing")
    /\ LET found == {v \in votes : /\ v.field = "answer_id"
                                   /\ v.target = call[p].answer_id
                                   /\ v.user_id = call[p].user_id}
       IN IF found = {}
             THEN Goto(p, "va_insert")
             ELSE \E v \in found :
                    call' = [call EXCEPT ![p].pc = "va_set", ![p].existing_vote = v._id,
                                         ![p].old_vote_type = v.vote_type]
    /\ UNCHANGED <<questions, answers, votes, notifications, user_stats, key_type,
                   next_oid, next_uuid, ncalls, snap, intent, sim>>

\* the result of the closing _get_answer_by_id(answer_id)
GetAnswerById(as, k) ==
    IF \E d \in as : d._id = k THEN "AnswerModel" ELSE "None"

\* votes.update_one({"_id": existing_vote["_id"]}, {"$set": {"vote_type": vote_type}})
vote_answer_set(p) ==
    /\ At(p, "vote_answer", "va_set")
    /\ votes' = {IF v._id = call[p].existing_vote
                    THEN [v EXCEPT !.vote_type = call[p].vote_type] ELSE v : v \in votes}
    /\ IF call[p].old_vote_type # call[p].vote_type
          THEN Goto(p, "va_dec")
          ELSE Return(p, GetAnswerById(answers, call[p].answer_id))
    /\ UNCHANGED <<questions, answers, notifications, user_stats, key_type,
                   next_oid, next_uuid, ncalls, snap, intent, sim>>

\* vote_answer_dec without its $inc: a flip only adds the new vote
vote_answer_dec_skipped(p) ==
    /\ At(p, "vote_answer", "va_dec")
    /\ Goto(p, "va_inc")
    /\ UNCHANGED <<questions, answers, votes, notifications, user_stats, key_type,
                   next_oid, next_uuid, ncalls, snap, intent, sim>>

\* the $inc that takes the old vote back
vote_answer_dec(p) ==
    /\ At(p, "vote_answer", "va_dec")
    /\ answers' = TakeVote(answers, call[p].answer_id, call[p].old_vote_type)
    /\ Goto(p, "va_inc")
    /\ UNCHANGED <<questions, votes, notifications, user_stats, key_type,
                   next_oid, next_uuid, ncalls, snap, intent, sim>>

\* votes.insert_one(vote_doc)
vote_answer_insert(p) ==
    /\ At(p, "vote_answer", "va_insert")
    /\ votes' = votes \cup
         {[_id |-> next_uuid, field |-> "answer_id", target |-> call[p].answer_id,
           user_id |-> call[p].user_id, vote_type |-> call[p].vote_type]}
    /\ next_uuid' = next_uuid + 1
    /\ Goto(p, "va_inc")
    /\ UNCHANGED <<questions, answers, notifications, user_stats, key_type,
                   next_oid, ncalls, snap, intent, sim>>

\* the $inc that adds the new vote, then the closing read
vote_answer_inc(p) ==
    /\ At(p, "vote_answer", "va_inc")
    /\ answers' = AddVote(answers, call[p].answer_id, call[p].vote_type)
    /\ Return(p, GetAnswerById(answers', call[p].answer_id))
    /\ UNCHANGED <<questions, votes, notifications, user_stats, key_type,
                   next_oid, next_uuid, ncalls, snap, intent, sim>>

\* ----------------------------------------------------------- remove_vote
call_remove_vote(p) ==
    /\ \E u \in Users, n \in AnswerArgs :
         /\ Invoke(p, "remove_vote", "rv_find", u, NoKey, Arg(n), UPVOTE)
         /\ intent' = IF \E d \in answers : d._id.n = n
                         THEN [intent EXCEPT ![u][n] = "none"] ELSE intent

\* vote_doc = votes.find_one({"answer_id": answer_id, "user_id": user_id});
\* without a vote the method returns False; with one, the next statement
\* (question_id = answer_doc["question_id"]) raises NameError before the
\* delete_one and the $inc that follow it are reached
remove_vote(p) ==
    /\ At(p, "remove_vote", "rv_find")
    /\ IF \E v \in votes : /\ v.field = "answer_id"
                           /\ v.target = call[p].answer_id
                           /\ v.user_id = call[p].user_id
          THEN Return(p, "NameError")
          ELSE Return(p, "False")
    /\ UNCHANGED <<questions, answers, votes, notifications, user_stats, key_type,
                   next_oid, next_uuid, ncalls, snap, intent, sim>>

\* --------------------------------------------------------- accept_answer
call_accept_answer(p) ==
    /\ \E u \in Users, q \in QuestionArgs, a \in AnswerArgs :
         Invoke(p, "accept_answer", "aa_find_q", u, Arg(q), Arg(a), UPVOTE)
    /\ UNCHANGED intent

\* accept_answer_find_q that clears the question's accepted flags as soon as
\* the question is found, before the answer is checked
accept_answer_find_q_clearing(p) ==
    /\ At(p, "accept_answer", "aa_find_q")
    /\ IF \E d \in questions : d._id = call[p].question_id /\ d.author_id = call[p].user_id
          THEN /\ Goto(p, "aa_find_a")
               /\ answers' = {IF d.question_id = call[p].question_id
                                 THEN [d EXCEPT !.is_accepted = FALSE] ELSE d : d \in answers}
          ELSE /\ Return(p, "False")
               /\ UNCHANGED answers
    /\ UNCHANGED <<questions, votes, notifications, user_stats, key_type,
                   next_oid, next_uuid, ncalls, snap, intent, sim>>

\* question = questions.find_one({"_id": question_id, "author_id": user_id})
accept_answer_find_q(p) ==
    /\ At(p, "accept_answer", "aa_find_q")
    /\ IF \E d \in questions : d._id = call[p].question_id /\ d.author_id = call[p].user_id
          THEN Goto(p, "aa_find_a")
          ELSE Return(p, "False")
    /\ UNCHANGED <<questions, answers, votes, notifications, user_stats, key_type,
                   next_oid, next_uuid, ncalls, snap, intent, sim>>

\* answer = answers.find_one({"_id": answer_id, "question_id": question_id})
accept_answer_find_a(p) ==
    /\ At(p, "accept_answer", "aa_find_a")
    /\ LET found == {d \in answers : d._id = call[p].answer_id
                                     /\ d.question_id = call[p].question_id}
       IN IF found = {}
             THEN Return(p, "False")
             ELSE \E d \in found :
                    call' = [call EXCEPT ![p].pc = "aa_clear", ![p].author_id = d.author_id]
    /\ UNCHANGED <<questions, answers, votes, notifications, user_stats, key_type,
                   next_oid, next_uuid, ncalls, snap, intent, sim>>

\* accept_answer_clear without its update_many
accept_answer_clear_skipped(p) ==
    /\ At(p, "accept_answer", "aa_clear")
    /\ Goto(p, "aa_set")
    /\ UNCHANGED <<questions, answers, votes, notifications, user_stats, key_type,
                   next_oid, next_uuid, ncalls, snap, intent, sim>>

\* answers.update_many({"question_id": question_id}, {"$set": {"is_accepted": False}})
accept_answer_clear(p) ==
    /\ At(p, "accept_answer", "aa_clear")
    /\ answers' = {IF d.question_id = call[p].question_id
                      THEN [d EXCEPT !.is_accepted = FALSE] ELSE d : d \in answers}
    /\ Goto(p, "aa_set")
    /\ UNCHANGED <<questions, votes, notifications, user_stats, key_type,
                   next_oid, next_uuid, ncalls, snap, intent, sim>>

\* answers.update_one({"_id": answer_id}, {"$set": {"is_accepted": True}})
accept_answer_set(p) ==
    /\ At(p, "accept_answer", "aa_set")
    /\ answers' = {IF d._id = call[p].answer_id
                      THEN [d EXCEPT !.is_accepted = TRUE] ELSE d : d \in answers}
    /\ Goto(p, "aa_question")
    /\ UNCHANGED <<questions, votes, notifications, user_stats, key_type,
                   next_oid, next_uuid, ncalls, snap, intent, sim>>

\* questions.update_one({"_id": question_id}, {"$set": {"has_accepted_answer": True}})
accept_answer_question(p) ==
    /\ At(p, "accept_answer", "aa_question")
    /\ questions' = {IF d._id = call[p].question_id
                        THEN [d EXCEPT !.has_accepted_answer = TRUE] ELSE d : d \in questions}
    /\ Goto(p, "aa_stat")
    /\ UNCHANGED <<answers, votes, notifications, user_stats, key_type,
                   next_oid, next_uuid, ncalls, snap, intent, sim>>

\* _increment_user_stat(answer["author_id"], "accepted_answers")
accept_answer_stat(p) ==
    /\ At(p, "accept_answer", "aa_stat")
    /\ user_stats' = IncrementUserStat(call[p].author_id, "accepted_answers")
    /\ Goto(p, "aa_notify")
    /\ UNCHANGED <<questions, answers, votes, notifications, key_type,
                   next_oid, next_uuid, ncalls, snap, intent, sim>>

\* accept_answer_notify without the test answer["author_id"] != user_id
accept_answer_notify_always(p) ==
    /\ At(p, "accept_answer", "aa_notify")
    /\ notifications' = CreateNotification(call[p].author_id, "answer_accepted",
                                            call[p].question_id)
    /\ next_uuid' = next_uuid + 1
    /\ Return(p, "True")
    /\ UNCHANGED <<questions, answers, votes, user_stats, key_type, next_oid,
                   ncalls, snap, intent, sim>>

\* notification for the answer author unless it is the accepting user; return True
accept_answer_notify(p) ==
    /\ At(p, "accept_answer", "aa_notify")
    /\ IF call[p].author_id # call[p].user_id
          THEN /\ notifications' = CreateNotification(call[p].author_id, "answer_accepted",
                                                       call[p].question_id)
               /\ next_uuid' = next_uuid + 1
          ELSE UNCHANGED <<notifications, next_uuid>>
    /\ Return(p, "True")
    /\ UNCHANGED <<questions, answers, votes, user_stats, key_type, next_oid,
                   ncalls, snap, intent, sim>>

\* -------------------------------------------------------- create_comment
call_create_comment(p) ==
    /\ \E u \in Users, n \in AnswerArgs :
         Invoke(p, "create_comment", "cc_find", u, NoKey, Arg(n), UPVOTE)
    /\ UNCHANGED intent

\* answer_doc = answers.find_one({"_id": answer_id})
create_comment_find(p) ==
    /\ At(p, "create_comment", "cc_find")
    /\ LET found == {d \in answers : d._id = call[p].answer_id}
       IN IF found = {}
             THEN Return(p, "None")
             ELSE \E d \in found :
                    call' = [call EXCEPT ![p].pc = "cc_insert", ![p].author_id = d.author_id]
    /\ UNCHANGED <<questions, answers, votes, notifications, user_stats, key_type,
                   next_oid, next_uuid, ncalls, snap, intent, sim>>

\* await self.comments.insert_one(comment_doc): __init__ binds no comments
\* collection, the attribute lookup raises AttributeError and the
\* notification that follows is not reached
create_comment_insert(p) ==
    /\ At(p, "create_comment", "cc_insert")
    /\ Return(p, "AttributeError")
    /\ UNCHANGED <<questions, answers, votes, notifications, user_stats, key_type,
                   next_oid, next_uuid, ncalls, snap, intent, sim>>

\* ------------------------------------------------------- delete_question
call_delete_question(p) ==
    /\ \E u \in Users, n \in QuestionArgs :
         Invoke(p, "delete_question", "dq_find", u, Arg(n), NoKey, UPVOTE)
    /\ UNCHANGED intent

\* question_doc = questions.find_one({"_id": question_id, "author_id": user_id})
delete_question_find(p) ==
    /\ At(p, "delete_question", "dq_find")
    /\ IF \E d \in questions : d._id = call[p].question_id /\ d.author_id = call[p].user_id
          THEN Goto(p, "dq_answers")
          ELSE Return(p, "False")
    /\ UNCHANGED <<questions, answers, votes, notifications, user_stats, key_type,
                   next_oid, next_uuid, ncalls, snap, intent, sim>>

\* answers.delete_many({"question_id": question_id})
delete_question_answers(p) ==
    /\ At(p, "delete_question", "dq_answers")
    /\ answers' = {a \in answers : a.question_id # call[p].question_id}
    /\ Goto(p, "dq_votes")
    /\ UNCHANGED <<questions, votes, notifications, user_stats, key_type,
                   next_oid, next_uuid, ncalls, snap, intent, sim>>

\* votes.delete_many({"question_id": question_id})
delete_question_votes(p) ==
    /\ At(p, "delete_question", "dq_votes")
    /\ votes' = {v \in votes : ~(v.field = "question_id" /\ v.target = call[p].question_id)}
    /\ Goto(p, "dq_notifications")
    /\ UNCHANGED <<questions, answers, notifications, user_stats, key_type,
                   next_oid, next_uuid, ncalls, snap, intent, sim>>

\* notifications.delete_many({"related_id": question_id})
delete_question_notifications(p) ==
    /\ At(p, "delete_question", "dq_notifications")
    /\ notifications' = {x \in notifications : x.related_id # call[p].question_id}
    /\ Goto(p, "dq_question")
    /\ UNCHANGED <<questions, answers, votes, user_stats, key_type,
                   next_oid, next_uuid, ncalls, snap, intent, sim>>

\* result = questions.delete_one({"_id": question_id}); return deleted_count > 0
delete_question_question(p) ==
    /\ At(p, "delete_question", "dq_question")
    /\ questions' = {d \in questions : d._id # call[p].question_id}
    /\ Return(p, IF \E d \in questions : d._id = call[p].question_id THEN "True" ELSE "False")
    /\ UNCHANGED <<answers, votes, notifications, user_stats, key_type,
                   next_oid, next_uuid, ncalls, snap, intent, sim>>

\* ------------------------------------------------- admin_delete_question
call_admin_delete_question(p) ==
    /\ \E n \in QuestionArgs :
         Invoke(p, "admin_delete_question", "adq_answers", "u1", Arg(n), NoKey, UPVOTE)
    /\ UNCHANGED intent

\* answers.delete_many({"question_id": question_id})
admin_delete_question_answers(p) ==
    /\ At(p, "admin_delete_question", "adq_answers")
    /\ answers' = {a \in answers : a.question_id # call[p].question_id}
    /\ Goto(p, "adq_comments")
    /\ UNCHANGED <<questions, votes, notifications, user_stats, key_type,
                   next_oid, next_uuid, ncalls, snap, intent, sim>>

\* the answers of the question are looked up after they were deleted; were
\* one found, self.comments.delete_many would raise AttributeError and the
\* except clause return False
admin_delete_question_comments(p) ==
    /\ At(p, "admin_delete_question", "adq_comments")
    /\ IF \E a \in answers : a.question_id = call[p].question_id
          THEN Return(p, "False")
          ELSE Goto(p, "adq_votes")
    /\ UNCHANGED <<questions, answers, votes, notifications, user_stats, key_type,
                   next_oid, next_uuid, ncalls, snap, intent, sim>>

\* votes.delete_many({"question_id": question_id})
admin_delete_question_votes(p) ==
    /\ At(p, "admin_delete_question", "adq_votes")
    /\ votes' = {v \in votes : ~(v.field = "question_id" /\ v.target = call[p].question_id)}
    /\ Goto(p, "adq_question")
    /\ UNCHANGED <<questions, answers, notifications, user_stats, key_type,
                   next_oid, next_uuid, ncalls, snap, intent, sim>>

\* result = questions.delete_one({"_id": ObjectId(question_id)})
admin_delete_question_question(p) ==
    /\ At(p, "admin_delete_question", "adq_question")
    /\ questions' = {d \in questions : d._id # ObjectId(call[p].question_id)}
    /\ Return(p, IF \E d \in questions : d._id = ObjectId(call[p].question_id)
                    THEN "True" ELSE "False")
    /\ UNCHANGED <<answers, votes, notifications, user_stats, key_type,
                   next_oid, next_uuid, ncalls, snap, intent, sim>>

\* ------------------------------------------- _create_notification fails
\* notifications.insert_one raises (the store is unreachable, a write is
\* refused): no handler stands between it and the caller of the service method
create_answer_notify_fails(p) ==
    /\ At(p, "create_answer", "ca_notify")
    /\ call[p].author_id # call[p].user_id
    /\ Return(p, "PyMongoError")
    /\ UNCHANGED <<questions, answers, votes, notifications, user_stats, key_type,
                   next_oid, next_uuid, ncalls, snap, intent, sim>>

accept_answer_notify_fails(p) ==
    /\ At(p, "accept_answer", "aa_notify")
    /\ call[p].author_id # call[p].user_id
    /\ Return(p, "PyMongoError")
    /\ UNCHANGED <<questions, answers, votes, notifications, user_stats, key_type,
                   next_oid, next_uuid, ncalls, snap, intent, sim>>

\* ------------------------------------------------- a voting call fails
\* an awaited store operation of vote_answer / vote_question raises (the
\* store is unreachable, the request is cancelled): the operations already
\* applied stay, the rest is skipped
vote_fails(p) ==
    /\ IsVote(p)
    /\ call[p].pc \in {"vq_set", "vq_dec", "vq_insert", "vq_inc",
                       "va_set", "va_dec", "va_insert", "va_inc"}
    /\ Return(p, "Failed")
    /\ UNCHANGED <<questions, answers, votes, notifications, user_stats, key_type,
                   next_oid, next_uuid, ncalls, snap, intent, sim>>

\* the caller of a failed voting call issues the identical call again
retry_vote(p) ==
    /\ IsVote(p) /\ call[p].ret = "Failed"
    /\ Invoke(p, call[p].op, IF call[p].op = "vote_question" THEN "vq_find" ELSE "va_find",
              call[p].user_id, call[p].question_id, call[p].answer_id, call[p].vote_type)
    /\ UNCHANGED <<snap, intent>>

\* the request is cancelled (or the task crashes) at an await of the
\* acceptance transition: the updates already applied stay, the rest is skipped
accept_answer_cancel(p) ==
    /\ call[p].op = "accept_answer"
    /\ call[p].pc \in {"aa_clear", "aa_set", "aa_question", "aa_stat", "aa_notify"}
    /\ Return(p, "Cancelled")
    /\ UNCHANGED <<questions, answers, votes, notifications, user_stats, key_type,
                   next_oid, next_uuid, ncalls, snap, intent, sim>>

\* --------------------------------------------------------- delete_answer
call_delete_answer(p) ==
    /\ \E u \in Users, n \in AnswerArgs :
         Invoke(p, "delete_answer", "da_find", u, NoKey, Arg(n), UPVOTE)
    /\ UNCHANGED intent

\* answer_doc = answers.find_one({"_id": answer_id, "author_id": user_id});
\* question_id = answer_doc["question_id"]
delete_answer_find(p) ==
    /\ At(p, "delete_answer", "da_find")
    /\ LET found == {a \in answers : a._id = call[p].answer_id /\ a.author_id = call[p].user_id}
       IN IF found = {}
             THEN Return(p, "False")
             ELSE \E a \in found :
                    call' = [call EXCEPT ![p].pc = "da_votes", ![p].question_id = a.question_id]
    /\ UNCHANGED <<questions, answers, votes, notifications, user_stats, key_type,
                   next_oid, next_uuid, ncalls, snap, intent, sim>>

\* votes.delete_many({"answer_id": answer_id})
delete_answer_votes(p) ==
    /\ At(p, "delete_answer", "da_votes")
    /\ votes' = {v \in votes : ~(v.field = "answer_id" /\ v.target = call[p].answer_id)}
    /\ Goto(p, "da_notifications")
    /\ UNCHANGED <<questions, answers, notifications, user_stats, key_type,
                   next_oid, next_uuid, ncalls, snap, intent, sim>>

\* notifications.delete_many({"related_id": answer_id})
delete_answer_notifications(p) ==
    /\ At(p, "delete_answer", "da_notifications")
    /\ notifications' = {x \in notifications : x.related_id # call[p].answer_id}
    /\ Goto(p, "da_answer")
    /\ UNCHANGED <<questions, answers, votes, user_stats, key_type,
                   next_oid, next_uuid, ncalls, snap, intent, sim>>

\* result = answers.delete_one({"_id": answer_id}); False unless one was deleted
delete_answer_answer(p) ==
    /\ At(p, "delete_answer", "da_answer")
    /\ answers' = {a \in answers : a._id # call[p].answer_id}
    /\ IF \E a \in answers : a._id = call[p].answer_id
          THEN Goto(p, "da_count")
          ELSE Return(p, "False")
    /\ UNCHANGED <<questions, votes, notifications, user_stats, key_type,
                   next_oid, next_uuid, ncalls, snap, intent, sim>>

\* questions.update_one({"_id": question_id}, {"$inc": {"answer_count": -1}})
delete_answer_count(p) ==
    /\ At(p, "delete_answer", "da_count")
    /\ questions' = {IF d._id = call[p].question_id
                        THEN [d EXCEPT !.answer_count = @ - 1] ELSE d : d \in questions}
    /\ Return(p, "True")
    /\ UNCHANGED <<answers, votes, notifications, user_stats, key_type,
                   next_oid, next_uuid, ncalls, snap, intent, sim>>

\* --------------------------------------------------- admin_delete_answer
call_admin_delete_answer(p) ==
    /\ \E n \in AnswerArgs :
         Invoke(p, "admin_delete_answer", "ada_comments", "u1", NoKey, Arg(n), UPVOTE)
    /\ UNCHANGED intent

\* self.comments.delete_many raises AttributeError (the service binds no
\* comments collection); the except clause returns False before any delete
admin_delete_answer(p) ==
    /\ At(p, "admin_delete_answer", "ada_comments")
    /\ Return(p, "False")
    /\ UNCHANGED <<questions, answers, votes, notifications, user_stats, key_type,
                   next_oid, next_uuid, ncalls, snap, intent, sim>>

\* ------------------------------------------------------- specifications
\* the creating calls; at most max calls are issued in all
CallCreate(p, max) ==
    /\ \/ call_create_question(p)
       \/ call_create_answer(p)
    /\ ncalls < max
    /\ ncalls' = ncalls + 1

\* the voting calls
CallVote(p, max) ==
    /\ \/ call_vote_question(p)
       \/ call_vote_answer(p)
       \/ call_remove_vote(p)
    /\ ncalls < max
    /\ ncalls' = ncalls + 1

StepCreate(p) ==
    \/ create_question(p)
    \/ create_answer_find(p)
    \/ create_answer_insert(p)
    \/ create_answer_count(p)
    \/ create_answer_stat(p)
    \/ create_answer_notify(p)

StepVote(p) ==
    \/ vote_question_find(p)
    \/ vote_question_existing(p)
    \/ vote_question_set(p)
    \/ vote_question_dec(p)
    \/ vote_question_insert(p)
    \/ vote_question_inc(p)
    \/ vote_answer_find(p)
    \/ vote_answer_existing(p)
    \/ vote_answer_set(p)
    \/ vote_answer_dec(p)
    \/ vote_answer_insert(p)
    \/ vote_answer_inc(p)
    \/ remove_vote(p)

\* calls on the voting paths, issued one after the other
NextVoteSeq ==
    \E p \in {"p1"} :
        \/ CallCreate(p, MaxVoteCalls) /\ snap' = Store
        \/ CallVote(p, MaxVoteCalls) /\ snap' = Store
        \/ StepCreate(p)
        \/ StepVote(p)

VoteSeqSpec == Init /\ [][NextVoteSeq]_vars

\* no call is in progress
Quiet == \A r \in Procs : call[r].pc = "idle"

\* no creating call is in progress
NoCreate == \A r \in Procs : call[r].pc = "idle" \/ call[r].op \notin {"create_question", "create_answer"}

\* a new call takes the first free task slot
FirstFree(p) == \A r \in Procs : call[r].pc = "idle" => (p = "p1" \/ r # "p1")

\* voting calls running concurrently; the creating calls run alone
NextVote ==
    \E p \in Procs :
        \/ CallCreate(p, MaxRaceCalls) /\ Quiet /\ FirstFree(p) /\ UNCHANGED snap
        \/ CallVote(p, MaxRaceCalls) /\ NoCreate /\ FirstFree(p) /\ UNCHANGED snap
        \/ StepCreate(p)
        \/ StepVote(p)

VoteSpec == Init /\ [][NextVote]_vars

\* the accepting calls
CallAccept(p, max) ==
    /\ call_accept_answer(p)
    /\ ncalls < max
    /\ ncalls' = ncalls + 1

StepAccept(p) ==
    \/ accept_answer_find_q(p)
    \/ accept_answer_find_a(p)
    \/ accept_answer_clear(p)
    \/ accept_answer_set(p)
    \/ accept_answer_question(p)
    \/ accept_answer_stat(p)
    \/ accept_answer_notify(p)
    \/ accept_answer_cancel(p)

\* calls on the acceptance path, issued one after the other
NextAcceptSeq ==
    \E p \in {"p1"} :
        \/ CallCreate(p, MaxAcceptCalls) /\ snap' = Store
        \/ CallAccept(p, MaxAcceptCalls) /\ snap' = Store
        \/ StepCreate(p)
        \/ StepAccept(p)

AcceptSeqSpec == Init /\ [][NextAcceptSeq]_vars

\* accepting calls running concurrently; the creating calls run alone
NextAccept ==
    \E p \in Procs :
        \/ CallCreate(p, MaxAcceptRaceCalls) /\ Quiet /\ FirstFree(p) /\ UNCHANGED snap
        \/ CallAccept(p, MaxAcceptRaceCalls) /\ NoCreate /\ FirstFree(p) /\ UNCHANGED snap
        \/ StepCreate(p)
        \/ StepAccept(p)

AcceptSpec == Init /\ [][NextAccept]_vars

\* a second voting call on the target of the voting call in progress
CallVoteToo(p, max) ==
    /\ p = "p2" /\ call["p2"].op = "none"
    /\ IsVote("p1") /\ ~Done("p1")
    /\ CallVote(p, max)
    /\ call'[p].op = call["p1"].op
    /\ call'[p].question_id = call["p1"].question_id
    /\ call'[p].answer_id = call["p1"].answer_id

\* a history of calls issued one after the other on the voting paths, closed
\* by one race: a second voting call on the same target, issued while the
\* last one is in progress
NextVoteRace ==
    \E p \in Procs :
        \/ CallCreate(p, MaxRaceCalls) /\ p = "p1" /\ call["p2"].op = "none" /\ snap' = Store
        \/ CallVote(p, MaxRaceCalls) /\ p = "p1" /\ call["p2"].op = "none" /\ snap' = Store
        \/ CallVoteToo(p, MaxRaceCalls) /\ UNCHANGED snap
        \/ StepCreate(p)
        \/ StepVote(p)

VoteRaceSpec == Init /\ [][NextVoteRace]_vars

\* the commenting calls
CallComment(p, max) ==
    /\ call_create_comment(p)
    /\ ncalls < max
    /\ ncalls' = ncalls + 1

\* accept_answer without cancellation
StepAcceptRun(p) ==
    \/ accept_answer_find_q(p)
    \/ accept_answer_find_a(p)
    \/ accept_answer_clear(p)
    \/ accept_answer_set(p)
    \/ accept_answer_question(p)
    \/ accept_answer_stat(p)
    \/ accept_answer_notify(p)

StepComment(p) ==
    \/ create_comment_find(p)
    \/ create_comment_insert(p)

StepNotifyFails(p) ==
    \/ create_answer_notify_fails(p)
    \/ accept_answer_notify_fails(p)

\* the calls that notify, issued one after the other; a notification insert may fail
NextNotifySeq ==
    \E p \in {"p1"} :
        \/ CallCreate(p, MaxNotifyCalls) /\ snap' = Store
        \/ CallAccept(p, MaxNotifyCalls) /\ snap' = Store
        \/ CallComment(p, MaxNotifyCalls) /\ snap' = Store
        \/ StepCreate(p)
        \/ StepAcceptRun(p)
        \/ StepComment(p)
        \/ StepNotifyFails(p)

NotifySeqSpec == Init /\ [][NextNotifySeq]_vars

\* the deleting calls
CallDelete(p, max) ==
    /\ \/ call_delete_question(p)
       \/ call_admin_delete_question(p)
    /\ ncalls < max
    /\ ncalls' = ncalls + 1

StepDelete(p) ==
    \/ delete_question_find(p)
    \/ delete_question_answers(p)
    \/ delete_question_votes(p)
    \/ delete_question_notifications(p)
    \/ delete_question_question(p)
    \/ admin_delete_question_answers(p)
    \/ admin_delete_question_comments(p)
    \/ admin_delete_question_votes(p)
    \/ admin_delete_question_question(p)

\* creating, voting and deleting calls, issued one after the other
NextDeleteSeq ==
    \E p \in {"p1"} :
        \/ CallCreate(p, MaxDeleteCalls) /\ snap' = Store
        \/ CallVote(p, MaxDeleteCalls) /\ snap' = Store
        \/ CallDelete(p, MaxDeleteCalls) /\ snap' = Store
        \/ StepCreate(p)
        \/ StepVote(p)
        \/ StepDelete(p)

DeleteSeqSpec == Init /\ [][NextDeleteSeq]_vars

\* a failed voting call issued again
CallRetry(p, max) ==
    /\ retry_vote(p)
    /\ ncalls < max
    /\ ncalls' = ncalls + 1

\* calls on the voting paths, issued one after the other; a voting call may
\* fail at any of its store operations and be issued again
NextVoteRetry ==
    \E p \in {"p1"} :
        \/ CallCreate(p, MaxRetryCalls) /\ snap' = Store
        \/ CallVote(p, MaxRetryCalls) /\ snap' = Store
        \/ CallRetry(p, MaxRetryCalls)
        \/ StepCreate(p)
        \/ StepVote(p)
        \/ vote_fails(p)

VoteRetrySpec == Init /\ [][NextVoteRetry]_vars

\* the answer-deleting calls
CallDeleteAnswer(p, max) ==
    /\ \/ call_delete_answer(p)
       \/ call_admin_delete_answer(p)
    /\ ncalls < max
    /\ ncalls' = ncalls + 1

StepDeleteAnswer(p) ==
    \/ delete_answer_find(p)
    \/ delete_answer_votes(p)
    \/ delete_answer_notifications(p)
    \/ delete_answer_answer(p)
    \/ delete_answer_count(p)
    \/ admin_delete_answer(p)

\* creating, accepting and answer-deleting calls, issued one after the other
NextAnswerSeq ==
    \E p \in {"p1"} :
        \/ CallCreate(p, MaxAnswerCalls) /\ snap' = Store
        \/ CallAccept(p, MaxAnswerCalls) /\ snap' = Store
        \/ CallDeleteAnswer(p, MaxAnswerCalls) /\ snap' = Store
        \/ StepCreate(p)
        \/ StepAcceptRun(p)
        \/ StepDeleteAnswer(p)

AnswerSeqSpec == Init /\ [][NextAnswerSeq]_vars

\* ------------------------------------------------- get_similar_questions
\* the stored questions the similarity search runs over: tags, title words,
\* description words and author of each; "u0" is an account deleted since
QuestionShapes ==
    {[tags |-> {"python"}, title |-> <<"how", "to", "sort">>, description |-> <<>>, author_id |-> "u1"],
     [tags |-> {"python"}, title |-> <<"tuples">>, description |-> <<>>, author_id |-> "u2"],
     [tags |-> {}, title |-> <<"help">>, description |-> <<"asking", "how", "to", "sort">>, author_id |-> "u1"],
     [tags |-> {"python"}, title |-> <<"tuples">>, description |-> <<>>, author_id |-> "u0"]}

\* question_doc of create_question, with the fields the search reads
QuestionDoc(n, sh) ==
    [_id |-> [t |-> "oid", n |-> n], author_id |-> sh.author_id, answer_count |-> 0,
     has_accepted_answer |-> FALSE, accepted_answer_id |-> NoKey,
     upvotes |-> 0, downvotes |-> 0, vote_count |-> 0,
     tags |-> sh.tags, title |-> sh.title, description |-> sh.description, created_at |-> n]

\* a store of MaxCorpus questions, no call made yet; ids arrive as path strings
InitSimilar ==
    /\ sim = NoSim
    /\ \E sh \in [1..MaxCorpus -> QuestionShapes] :
         questions = {QuestionDoc(n, sh[n]) : n \in 1..MaxCorpus}
    /\ answers = {}
    /\ votes = {}
    /\ notifications = {}
    /\ user_stats = [u \in Users |-> [answers_given |-> 0, accepted_answers |-> 0]]
    /\ call = [p \in Procs |-> Idle]
    /\ key_type = "str"
    /\ next_oid = MaxCorpus + 1
    /\ next_uuid = 1
    /\ ncalls = 0
    /\ snap = <<{}, {}, {}, {}, [u \in Users |-> [answers_given |-> 0, accepted_answers |-> 0]]>>
    /\ intent = [u \in Users |-> [n \in Ids |-> "none"]]

\* seq[:n]
Take(seq, n) == SubSeq(seq, 1, IF Len(seq) < n THEN Len(seq) ELSE n)

\* the sequences without repetition of at most n elements of S
RECURSIVE Rankings(_, _)
Rankings(S, n) ==
    IF n = 0 THEN {<<>>}
    ELSE {<<>>} \cup UNION {{<<x>> \o r : r \in Rankings(S \ {x}, n - 1)} : x \in S}

\* what the vector index answers to one call: it is unavailable (collection
\* is None), its call raises, the question is not indexed, the response lacks
\* ids, metadatas or documents, or the query returns the ids of at most
\* n_results = limit + 1 indexed questions, some of which may have left the store
IndexOutcomes(limit) ==
    {[kind |-> k, ids |-> <<>>] : k \in {"unavailable", "raises", "unindexed", "malformed"}}
    \cup {[kind |-> "ranking", ids |-> [i \in 1..Len(r) |-> [t |-> "str", n |-> r[i]]]] :
            r \in Rankings(1..(MaxCorpus + 1), limit + 1)}

\* ChromaDBService.semantic_search(query, limit, question_only=True)
SemanticSearch(ix, limit) == Take(ix.ids, limit)

\* ChromaGetSimilarQuestions without the filter that drops the question itself
ChromaGetSimilarQuestions_unfiltered(question_id, limit, ix) ==
    IF ix.kind # "ranking" THEN <<>>
    ELSE SemanticSearch(ix, limit + 1)

\* ChromaDBService.get_similar_questions(question_id, limit)
ChromaGetSimilarQuestions(question_id, limit, ix) ==
    IF ix.kind # "ranking" THEN <<>>
    ELSE Take(SelectSeq(SemanticSearch(ix, limit + 1), LAMBDA id : id # question_id), limit)

\* _get_user_info(user_id) finds the user
HasUserInfo(u) == u \in Users

\* mongo's {"$regex": search_text} on a text, word by word
RegexMatch(text, pat) ==
    \E i \in 0..(Len(text) - Len(pat)) : SubSeq(text, i + 1, i + Len(pat)) = pat

\* set(text.lower().split())
Words(text) == {text[i] : i \in 1..Len(text)}

\* a set of documents in natural (insertion) order
RECURSIVE NaturalOrder(_)
NaturalOrder(S) ==
    IF S = {} THEN <<>>
    ELSE LET d == CHOOSE x \in S : \A y \in S : x.created_at <= y.created_at
         IN <<d>> \o NaturalOrder(S \ {d})

\* the score of a candidate document against the source question
Score(source, doc) ==
    2 * Cardinality(source.tags \cap doc.tags) + Cardinality(Words(source.title) \cap Words(doc.title))

\* scored_questions.sort(key=score, reverse=True): stable, highest first
SortByScore(source, seq) ==
    LET before(i, j) == \/ Score(source, seq[i]) > Score(source, seq[j])
                        \/ Score(source, seq[i]) = Score(source, seq[j]) /\ i < j
        pos(i) == 1 + Cardinality({j \in 1..Len(seq) : before(j, i)})
    IN [k \in 1..Len(seq) |-> seq[CHOOSE i \in 1..Len(seq) : pos(i) = k]]

\* the question_id of each item built from a list of documents, those whose
\* author has no user record left out
BuildResponse(docs) ==
    LET kept == SelectSeq(docs, LAMBDA d : HasUserInfo(d.author_id))
    IN [i \in 1..Len(kept) |-> str(kept[i]._id)]

\* _get_similar_questions_fallback(question_id, limit)
GetSimilarQuestionsFallback(question_id, limit) ==
    LET found == {d \in questions : d._id = ObjectId(question_id)}
    IN IF found = {} THEN <<>>
       ELSE LET source == CHOOSE d \in found : TRUE
                by_tags == source.tags # {}
                by_text == Len(source.title) > 2
                search_text == Take(source.title, 3)
                matches(d) == \/ by_tags /\ d.tags \cap source.tags # {}
                              \/ by_text /\ RegexMatch(d.title, search_text)
                              \/ by_text /\ RegexMatch(d.description, search_text)
                similar_docs == Take(NaturalOrder({d \in questions :
                                        d._id # ObjectId(question_id) /\ matches(d)}), limit * 2)
                scored == SelectSeq(similar_docs, LAMBDA d : Score(source, d) > 0)
            IN IF ~by_tags /\ ~by_text THEN <<>>
               ELSE BuildResponse(Take(SortByScore(source, scored), limit))

\* GetSimilarQuestions topping up from the fallback whenever the index gave
\* fewer than limit results
GetSimilarQuestions_topping_up(question_id, limit, ix) ==
    LET similar_results == ChromaGetSimilarQuestions(question_id, limit, ix)
        in_store == SelectSeq(similar_results,
                              LAMBDA id : \E d \in questions : d._id = ObjectId(id))
        docs == [i \in 1..Len(in_store) |->
                    CHOOSE d \in questions : d._id = ObjectId(in_store[i])]
    IN IF Len(similar_results) >= limit
          THEN [question_id |-> question_id, limit |-> limit, index |-> ix.kind,
                hits |-> Len(similar_results), path |-> "semantic", ret |-> BuildResponse(docs)]
          ELSE [question_id |-> question_id, limit |-> limit, index |-> ix.kind,
                hits |-> Len(similar_results), path |-> "fallback", ret |-> GetSimilarQuestionsFallback(question_id, limit)]

\* QAService.get_similar_questions(question_id, limit): the path taken and
\* the question ids returned
GetSimilarQuestions(question_id, limit, ix) ==
    LET similar_results == ChromaGetSimilarQuestions(question_id, limit, ix)
        in_store == SelectSeq(similar_results,
                              LAMBDA id : \E d \in questions : d._id = ObjectId(id))
        docs == [i \in 1..Len(in_store) |->
                    CHOOSE d \in questions : d._id = ObjectId(in_store[i])]
    IN IF similar_results # <<>>
          THEN [question_id |-> question_id, limit |-> limit, index |-> ix.kind,
                hits |-> Len(similar_results), path |-> "semantic", ret |-> BuildResponse(docs)]
          ELSE [question_id |-> question_id, limit |-> limit, index |-> ix.kind,
                hits |-> Len(similar_results), path |-> "fallback", ret |-> GetSimilarQuestionsFallback(question_id, limit)]

\* one GET /questions/{question_id}/similar?limit= request (1 <= limit); the
\* call reads only, so one call per store shows every result
get_similar_questions ==
    /\ sim = NoSim
    /\ \E n \in 1..(MaxCorpus + 1), limit \in 1..MaxLimit :
         \E ix \in IndexOutcomes(limit) :
            sim' = GetSimilarQuestions(Arg(n), limit, ix)
    /\ UNCHANGED <<questions, answers, votes, notifications, user_stats, call,
                   key_type, next_oid, next_uuid, ncalls, snap, intent>>

NextSimilar == get_similar_questions

SimilarSpec == InitSimilar /\ [][NextSimilar]_vars

\* ------------------------------------------------------ search_questions
\* the search requests made: a query text, a tag filter, an author filter and
\* an acceptance filter, each of which may be absent (no word, no tag, "none")
SearchRequests ==
    [query : {<<>>, <<"tuples">>, <<"to", "sort">>},
     tags : {{}, {"python"}},
     author_id : {"none", "u1"},
     has_accepted_answer : {"none", "true", "false"},
     order : {"asc", "desc"},
     page : 1..MaxPage,
     limit : 1..MaxLimit]

\* the questions the filters of a search request select
SearchFilter(r) ==
    {d \in questions :
        /\ r.query # <<>> => RegexMatch(d.title, r.query) \/ RegexMatch(d.description, r.query)
        /\ r.tags # {} => d.tags \cap r.tags # {}
        /\ r.author_id # "none" => d.author_id = r.author_id
        /\ r.has_accepted_answer # "none" => d.has_accepted_answer = (r.has_accepted_answer = "true")}

\* find(filters).sort("created_at", direction)
RECURSIVE SortByCreatedAt(_, _)
SortByCreatedAt(S, order) ==
    IF S = {} THEN <<>>
    ELSE LET d == CHOOSE x \in S : \A y \in S :
                     IF order = "desc" THEN x.created_at >= y.created_at
                                       ELSE x.created_at <= y.created_at
         IN <<d>> \o SortByCreatedAt(S \ {d}, order)

\* cursor.skip(skip).limit(limit)
Page(seq, skip, limit) ==
    IF skip >= Len(seq) THEN <<>> ELSE Take(SubSeq(seq, skip + 1, Len(seq)), limit)

\* QAService.search_questions(search_request, user_id): total and the page
SearchQuestions(r) ==
    LET total == Cardinality(SearchFilter(r))
        skip == (r.page - 1) * r.limit
        question_docs == Page(SortByCreatedAt(SearchFilter(r), r.order), skip, r.limit)
    IN [question_id |-> NoKey, limit |-> r.limit, index |-> "none", hits |-> total,
        path |-> "search", ret |-> BuildResponse(question_docs)]

\* search_questions noting on every question of the page that it was shown,
\* by an $inc of its vote_count
search_questions_boosting ==
    /\ sim = NoSim
    /\ \E r \in SearchRequests :
         /\ sim' = SearchQuestions(r)
         /\ questions' = {IF str(d._id) \in {SearchQuestions(r).ret[i] : i \in 1..Len(SearchQuestions(r).ret)}
                             THEN [d EXCEPT !.vote_count = @ + 1] ELSE d : d \in questions}
    /\ UNCHANGED <<answers, votes, notifications, user_stats, call,
                   key_type, next_oid, next_uuid, ncalls, snap, intent>>

\* one search request; count_documents, find and the votes.find_one per
\* question only read
search_questions ==
    /\ sim = NoSim
    /\ \E r \in SearchRequests : sim' = SearchQuestions(r)
    /\ UNCHANGED <<questions, answers, votes, notifications, user_stats, call,
                   key_type, next_oid, next_uuid, ncalls, snap, intent>>

\* --------------------------------------------------- semantic_search_all
\* QAService.semantic_search_all(query, limit): the index results are looked
\* up with questions.find_one({"_id": question_id}), the id as the index
\* holds it
SemanticSearchAll(limit, ix) ==
    LET results == SemanticSearch(ix, limit)
        found == SelectSeq(results, LAMBDA id : \E d \in questions : d._id = id)
        docs == [i \in 1..Len(found) |-> CHOOSE d \in questions : d._id = found[i]]
    IN [question_id |-> NoKey, limit |-> limit, index |-> ix.kind, hits |-> Len(results),
        path |-> "semantic_all", ret |-> BuildResponse(docs)]

semantic_search_all ==
    /\ sim = NoSim
    /\ \E limit \in 1..MaxLimit : \E ix \in IndexOutcomes(limit) :
         sim' = SemanticSearchAll(limit, ix)
    /\ UNCHANGED <<questions, answers, votes, notifications, user_stats, call,
                   key_type, next_oid, next_uuid, ncalls, snap, intent>>

\* a store of MaxReadCorpus questions, no call made yet
InitRead ==
    /\ sim = NoSim
    /\ \E sh \in [1..MaxReadCorpus -> QuestionShapes] :
         questions = {QuestionDoc(n, sh[n]) : n \in 1..MaxReadCorpus}
    /\ answers = {}
    /\ votes = {}
    /\ notifications = {}
    /\ user_stats = [u \in Users |-> [answers_given |-> 0, accepted_answers |-> 0]]
    /\ call = [p \in Procs |-> Idle]
    /\ key_type = "str"
    /\ next_oid = MaxReadCorpus + 1
    /\ next_uuid = 1
    /\ ncalls = 0
    /\ snap = <<{}, {}, {}, {}, [u \in Users |-> [answers_given |-> 0, accepted_answers |-> 0]]>>
    /\ intent = [u \in Users |-> [n \in Ids |-> "none"]]

\* the read paths, one call per store
NextRead ==
    \/ get_similar_questions
    \/ search_questions
    \/ semantic_search_all

ReadSpec == InitRead /\ [][NextRead]_vars

\* ================================================================ claims
\* the target key of a voting call
Target(p) == IF call[p].op = "vote_question" THEN call[p].question_id ELSE call[p].answer_id

\* the document numbered n
Doc(coll, n) == CHOOSE d \in coll : d._id.n = n

\* the vote records of user u on target n
VotesOn(vs, u, n) == {v \in vs : v.user_id = u /\ v.target.n = n}

\* when the call of p was issued, its user held a vote of type vt on its target
Held(p, vt) ==
    \E v \in VotesOn(snap[3], call[p].user_id, Target(p).n) : v.vote_type = vt

Other(vt) == IF vt = UPVOTE THEN DOWNVOTE ELSE UPVOTE

\* C1: the votes collection holds at most one vote record per user and target,
\* also in the states reached by interleaved voting calls.
C1_OneVotePerPair ==
    \A v1, v2 \in votes :
        (v1.user_id = v2.user_id /\ v1.field = v2.field /\ v1.target = v2.target) => v1 = v2

\* C2: once a sequence of voting and vote-removing calls has run, every
\* target's vote_count is the number of actors whose last vote is an upvote
\* minus the number whose last vote is a downvote, a removed vote counting zero.
C2_NetScoreIsTally ==
    Quiet =>
        \A d \in questions \cup answers :
            d.vote_count = Cardinality({u \in Users : intent[u][d._id.n] = UPVOTE})
                           - Cardinality({u \in Users : intent[u][d._id.n] = DOWNVOTE})

\* C3: a voting call by an actor who already holds a vote of the same type on
\* the target changes no counter of any target and no vote record, at no step.
C3_SameVoteIsNoOp ==
    \A p \in Procs :
        (IsVote(p) /\ Held(p, call[p].vote_type)) =>
            /\ questions = snap[1]
            /\ answers = snap[2]
            /\ votes = snap[3]

C3_Witness ==
    /\ IsVote("p1") /\ Done("p1") /\ call["p1"].ret # "None"
    /\ Held("p1", call["p1"].vote_type)
    /\ Doc(questions \cup answers, Target("p1").n).upvotes
         + Doc(questions \cup answers, Target("p1").n).downvotes = 1

\* C4: in every state, between the store updates of a vote change too, each
\* target's vote_count equals its upvotes minus its downvotes.
C4_NetIsDifference ==
    \A d \in questions \cup answers : d.vote_count = d.upvotes - d.downvotes

C4_Witness ==
    \E p \in Procs :
        /\ call[p].pc \in {"vq_inc", "va_inc"}
        /\ call[p].existing_vote # 0
        /\ call[p].old_vote_type = DOWNVOTE
        /\ Doc(questions \cup answers, Target(p).n).vote_count = 0

\* C5: a completed voting call by an actor who held the opposite vote leaves
\* the same single record, now of the new type, the old type's counter one
\* lower, the new type's counter one higher and vote_count moved by two.
C5_FlipMovesByTwo ==
    \A p \in Procs :
        (IsVote(p) /\ Done(p) /\ Held(p, Other(call[p].vote_type))) =>
            LET n == Target(p).n
                u == call[p].user_id
                s == IF call[p].vote_type = UPVOTE THEN 1 ELSE -1
                old == Doc(snap[1] \cup snap[2], n)
                new == Doc(questions \cup answers, n)
            IN /\ Cardinality(votes) = Cardinality(snap[3])
               /\ {v._id : v \in VotesOn(votes, u, n)} = {v._id : v \in VotesOn(snap[3], u, n)}
               /\ \A v \in VotesOn(votes, u, n) : v.vote_type = call[p].vote_type
               /\ new.upvotes = old.upvotes + s
               /\ new.downvotes = old.downvotes - s
               /\ new.vote_count = old.vote_count + 2 * s

C5_Witness ==
    /\ IsVote("p1") /\ Done("p1")
    /\ Held("p1", UPVOTE) /\ call["p1"].vote_type = DOWNVOTE
    /\ Doc(questions \cup answers, Target("p1").n).vote_count = -1

\* C6: remove_vote by an actor who holds a vote record on the answer deletes
\* the record and lowers the counter of its type by one (the net score by one
\* for an upvote, raising it by one for a downvote); without a record nothing
\* changes.
C6_RemoveDeletesRecord ==
    \A p \in Procs :
        (call[p].op = "remove_vote" /\ Done(p)) =>
            LET n == call[p].answer_id.n
                u == call[p].user_id
                had == VotesOn(snap[3], u, n)
            IN IF had = {}
                  THEN Store = snap
                  ELSE /\ VotesOn(votes, u, n) = {}
                       /\ \A v \in had :
                            LET s == IF v.vote_type = UPVOTE THEN 1 ELSE 0
                                old == Doc(snap[2], n)
                                new == Doc(answers, n)
                            IN /\ new.upvotes = old.upvotes - s
                               /\ new.downvotes = old.downvotes - (1 - s)
                               /\ new.vote_count = old.vote_count - s + (1 - s)

\* the accepted answers of the question numbered n
Accepted(n) == {a \in answers : a.is_accepted /\ a.question_id.n = n}

\* C7: with accept_answer calls issued one after the other, cancelled ones
\* included, no question ever has two accepted answers, and between the
\* clearing and the setting update of a call the question has none.
C7_AtMostOneAccepted ==
    /\ \A q \in questions : Cardinality(Accepted(q._id.n)) <= 1
    /\ \A p \in Procs :
         At(p, "accept_answer", "aa_set") => Accepted(call[p].question_id.n) = {}

C7_Witness ==
    /\ At("p1", "accept_answer", "aa_set")
    /\ \E a \in snap[2] : /\ a.is_accepted
                          /\ a.question_id = call["p1"].question_id
                          /\ a._id # call["p1"].answer_id

\* C8: whenever an answer is accepted, its question's accepted_answer_id is
\* set and is that answer's id.
C8_AcceptedIdMatches ==
    Quiet =>
        \A a \in answers :
            a.is_accepted =>
                \E q \in questions : /\ q._id.n = a.question_id.n
                                     /\ q.accepted_answer_id.n = a._id.n

\* C9: under every interleaving of two accept_answer calls on one question,
\* no state has two accepted answers of the question, and once two calls for
\* two of its answers have both returned True exactly one of them is accepted.
C9_SerializedAccepts ==
    /\ \A q \in questions : Cardinality(Accepted(q._id.n)) <= 1
    /\ (/\ \A p \in Procs : call[p].op = "accept_answer" /\ Done(p) /\ call[p].ret = "True"
        /\ call["p1"].question_id = call["p2"].question_id
        /\ call["p1"].answer_id # call["p2"].answer_id)
       => Cardinality(Accepted(call["p1"].question_id.n)) = 1

\* C10: a rejected accept_answer call (it returned False) leaves the answers,
\* the questions, the votes, the notifications and the user statistics as
\* they were when it was issued.
C10_RejectedAcceptChangesNothing ==
    \A p \in Procs :
        (call[p].op = "accept_answer" /\ Done(p) /\ call[p].ret = "False") => Store = snap

C10_Witness ==
    /\ call["p1"].op = "accept_answer" /\ Done("p1") /\ call["p1"].ret = "False"
    /\ \E q \in questions : q._id = call["p1"].question_id /\ q.author_id # call["p1"].user_id
    /\ \E a \in answers : a._id = call["p1"].answer_id /\ a.question_id = call["p1"].question_id

\* what a voting call adds to the upvotes / downvotes of its target, given the
\* vote its actor held when the history reached the race
DeltaUp(p) ==
    (IF call[p].vote_type = UPVOTE THEN 1 ELSE 0) - (IF Held(p, UPVOTE) THEN 1 ELSE 0)

DeltaDown(p) ==
    (IF call[p].vote_type = DOWNVOTE THEN 1 ELSE 0) - (IF Held(p, DOWNVOTE) THEN 1 ELSE 0)

\* two voting calls on the same existing target have raced and have both ended
RaceOver ==
    /\ Quiet /\ IsVote("p1") /\ IsVote("p2")
    /\ Target("p1") = Target("p2")
    /\ call["p1"].ret # "None" /\ call["p2"].ret # "None"

\* C11: once two interleaved voting calls of two different actors on the same
\* existing target have both ended, the target's counters have moved by the
\* sum of the two calls' deltas and each actor has its vote record, whatever
\* the interleaving was.
C11_BothVotesReflected ==
    (RaceOver /\ call["p1"].user_id # call["p2"].user_id) =>
        LET n == Target("p1").n
            old == Doc(snap[1] \cup snap[2], n)
            new == Doc(questions \cup answers, n)
            du == DeltaUp("p1") + DeltaUp("p2")
            dd == DeltaDown("p1") + DeltaDown("p2")
        IN /\ new.upvotes = old.upvotes + du
           /\ new.downvotes = old.downvotes + dd
           /\ new.vote_count = old.vote_count + du - dd
           /\ \A p \in Procs :
                /\ Cardinality(VotesOn(votes, call[p].user_id, n)) = 1
                /\ \A v \in VotesOn(votes, call[p].user_id, n) : v.vote_type = call[p].vote_type

C11_Witness ==
    /\ RaceOver /\ call["p1"].user_id # call["p2"].user_id
    /\ Held("p1", Other(call["p1"].vote_type))
    /\ Doc(questions \cup answers, Target("p1").n).upvotes = 1
    /\ Doc(questions \cup answers, Target("p1").n).downvotes = 1

\* the ids in a sequence of ids
IdsOf(seq) == {seq[i] : i \in 1..Len(seq)}

\* C12: on the semantic path and on the fallback path, get_similar_questions
\* returns at most limit items, and no returned item is the question asked about.
C12_AtMostLimitWithoutSelf ==
    sim.path # "none" =>
        /\ Len(sim.ret) <= sim.limit
        /\ sim.question_id \notin IdsOf(sim.ret)

C12_Witness ==
    /\ sim.path = "semantic"
    /\ Len(sim.ret) = sim.limit
    /\ sim.limit = MaxLimit
    /\ \E d \in questions : d._id = ObjectId(sim.question_id)

\* X exists and another stored question shares a tag with it
SharesTag(question_id) ==
    \E x, d \in questions : /\ x._id = ObjectId(question_id)
                            /\ d._id # x._id
                            /\ d.tags \cap x.tags # {}

\* C13: when the semantic index gives nothing for question X and another
\* stored question shares a tag with X, get_similar_questions takes the
\* fallback and returns at least one item, whatever else the store holds.
C13_FallbackFindsTagSharer ==
    (sim.path # "none" /\ sim.hits = 0 /\ SharesTag(sim.question_id)) =>
        /\ sim.path = "fallback"
        /\ sim.ret # <<>>

\* the notifications created since the call in progress (or just ended) was issued
NewNotifications == notifications \ snap[4]

\* the new notifications are exactly one, of the given type, for user u
OneFor(u, type) ==
    /\ Cardinality(NewNotifications) = 1
    /\ \A x \in NewNotifications : x.user_id = u /\ x.type = type

\* C14: no call creates a notification addressed to its own actor; an
\* accept_answer that returned True, and a create_answer or create_comment
\* that ran to its end, created no notification when the actor is the author
\* concerned (of the answer, of the question, of the answer) and otherwise
\* exactly one, addressed to that author.
C14_NotifyAuthorUnlessActor ==
    \A p \in {"p1"} :
        /\ \A x \in NewNotifications : x.user_id # call[p].user_id
        /\ (call[p].op = "accept_answer" /\ Done(p) /\ call[p].ret = "True") =>
             LET a == Doc(answers, call[p].answer_id.n)
             IN IF a.author_id = call[p].user_id THEN NewNotifications = {}
                ELSE OneFor(a.author_id, "answer_accepted")
        /\ (call[p].op = "create_answer" /\ Done(p) /\ call[p].ret = "NameError") =>
             LET q == Doc(questions, call[p].question_id.n)
             IN IF q.author_id = call[p].user_id THEN NewNotifications = {}
                ELSE OneFor(q.author_id, "question_answered")
        /\ (call[p].op = "create_comment" /\ Done(p) /\ call[p].ret = "CommentModel") =>
             LET a == Doc(answers, call[p].answer_id.n)
             IN IF a.author_id = call[p].user_id THEN NewNotifications = {}
                ELSE OneFor(a.author_id, "answer_commented")

C14_Witness ==
    /\ call["p1"].op = "accept_answer" /\ Done("p1") /\ call["p1"].ret = "True"
    /\ Doc(answers, call["p1"].answer_id.n).author_id # call["p1"].user_id
    /\ OneFor(Doc(answers, call["p1"].answer_id.n).author_id, "answer_accepted")
    /\ Cardinality(notifications) = 2

\* the call of p made its mutation, owed a notification and created none
NotificationFailed(p) ==
    /\ Done(p)
    /\ NewNotifications = {}
    /\ \/ /\ call[p].op = "accept_answer" /\ call[p].ret # "False"
          /\ Doc(answers, call[p].answer_id.n).author_id # call[p].user_id
       \/ /\ call[p].op = "create_answer" /\ call[p].ret # "None"
          /\ Doc(questions, call[p].question_id.n).author_id # call[p].user_id

\* C15: when the notification of a create_answer or accept_answer call cannot
\* be created, the mutation made before it stays applied and the call still
\* reports success to its caller.
C15_NotifyFailureNotPropagated ==
    \A p \in {"p1"} :
        NotificationFailed(p) =>
            IF call[p].op = "accept_answer"
               THEN /\ Doc(answers, call[p].answer_id.n).is_accepted
                    /\ call[p].ret = "True"
               ELSE /\ \E a \in answers : a._id = call[p].answer_id
                    /\ call[p].ret = "AnswerModel"

\* C16: when delete_question or admin_delete_question has returned True for
\* a question, the store holds no answer of that question, no vote on it or
\* on one of the answers it had, and no notification related to it.
C16_DeleteLeavesNoReference ==
    \A p \in {"p1"} :
        (/\ call[p].op \in {"delete_question", "admin_delete_question"}
         /\ Done(p) /\ call[p].ret = "True") =>
            LET q == call[p].question_id.n
                had == {a._id.n : a \in {x \in snap[2] : x.question_id.n = q}}
            IN /\ \A a \in answers : a.question_id.n # q
               /\ \A v \in votes : v.target.n # q /\ v.target.n \notin had
               /\ \A x \in notifications : x.related_id.n # q

\* the answers of the call's question, other than the call's answer, that
\* were accepted when the call was issued
PreviouslyAccepted(p) ==
    {a \in snap[2] : /\ a.is_accepted
                     /\ a.question_id = call[p].question_id
                     /\ a._id # call[p].answer_id}

\* C17: an accept_answer(q, a2) that returned True while another answer a1 of
\* q was the accepted one leaves a1 not accepted, a2 accepted, and q marked as
\* having an accepted answer, which is a2.
C17_AcceptSwitchesToNewAnswer ==
    \A p \in {"p1"} :
        (/\ call[p].op = "accept_answer" /\ Done(p) /\ call[p].ret = "True"
         /\ PreviouslyAccepted(p) # {}) =>
            LET q == Doc(questions, call[p].question_id.n)
            IN /\ \A a1 \in PreviouslyAccepted(p) : ~Doc(answers, a1._id.n).is_accepted
               /\ Doc(answers, call[p].answer_id.n).is_accepted
               /\ q.has_accepted_answer
               /\ q.accepted_answer_id = call[p].answer_id

\* the vote records of type vt on the target numbered n
Ledger(n, vt) == {v \in votes : v.target.n = n /\ v.vote_type = vt}

\* the counters of document d are the counts of the vote records on it
CountersMatchLedger(d) ==
    /\ d.upvotes = Cardinality(Ledger(d._id.n, UPVOTE))
    /\ d.downvotes = Cardinality(Ledger(d._id.n, DOWNVOTE))

\* C18: in every state, those between the store operations of one voting or
\* vote-removing call included, each target's upvotes and downvotes are the
\* numbers of upvote and downvote records on it in the votes collection.
C18_CountersAlwaysMatchLedger ==
    \A d \in questions \cup answers : CountersMatchLedger(d)

\* C19: once two interleaved voting calls of one actor on the same existing
\* target have both ended, the votes collection holds exactly one record of
\* that actor on the target and the target's counters match the records.
C19_SameActorRaceKeepsOneVote ==
    (RaceOver /\ call["p1"].user_id = call["p2"].user_id) =>
        /\ Cardinality(VotesOn(votes, call["p1"].user_id, Target("p1").n)) = 1
        /\ CountersMatchLedger(Doc(questions \cup answers, Target("p1").n))

\* C20: in every state, under interleaved voting and vote-removing calls of
\* the same or of different actors too, no target has a negative upvotes or
\* downvotes counter.
C20_CountersNonNegative ==
    \A d \in questions \cup answers : d.upvotes >= 0 /\ d.downvotes >= 0

\* the call of p is an accept_answer, by the question's author, of an answer
\* that was the accepted answer of the question when the call was issued
ReAccept(p) ==
    /\ call[p].op = "accept_answer"
    /\ \E q \in snap[1] : q._id = call[p].question_id /\ q.author_id = call[p].user_id
    /\ \E a \in snap[2] : /\ a._id = call[p].answer_id
                          /\ a.question_id = call[p].question_id
                          /\ a.is_accepted

\* C21: accept_answer on the answer that already is the accepted one returns
\* True and changes nothing: the answer is accepted in every state of the
\* call, and when it has returned the answers, the questions, the user
\* statistics and the notifications are what they were when it was issued.
C21_ReAcceptIsNoOp ==
    \A p \in {"p1"} :
        ReAccept(p) =>
            /\ Doc(answers, call[p].answer_id.n).is_accepted
            /\ (Done(p) /\ call[p].ret # "Cancelled") =>
                  /\ call[p].ret = "True"
                  /\ answers = snap[2]
                  /\ questions = snap[1]
                  /\ user_stats = snap[5]
                  /\ notifications = snap[4]

\* C22: when a voting call that failed part-way has been issued again until
\* it ran to its end, the target's counters and the actor's vote record are
\* what one call without failure leaves: the counters of the first issue
\* moved by the call's delta, and one record of the requested type.
C22_RetryEndsAsOneCall ==
    \A p \in {"p1"} :
        (IsVote(p) /\ Done(p) /\ call[p].ret \in {"AnswerModel", "NameError"}) =>
            LET n == Target(p).n
                old == Doc(snap[1] \cup snap[2], n)
                new == Doc(questions \cup answers, n)
            IN /\ new.upvotes = old.upvotes + DeltaUp(p)
               /\ new.downvotes = old.downvotes + DeltaDown(p)
               /\ new.vote_count = old.vote_count + DeltaUp(p) - DeltaDown(p)
               /\ Cardinality(VotesOn(votes, call[p].user_id, n)) = 1
               /\ \A v \in VotesOn(votes, call[p].user_id, n) : v.vote_type = call[p].vote_type

\* C23: a call made with the id of a stored answer or question reaches the
\* document: vote_answer finds the answer, delete_question by the author
\* finds and deletes the question, and the answer_count update of
\* create_answer reaches the question it answered.
C23_StoredKeysAreFound ==
    \A p \in {"p1"} :
        Done(p) =>
            /\ (/\ call[p].op = "vote_answer"
                /\ \E a \in snap[2] : a._id.n = call[p].answer_id.n) => call[p].ret # "None"
            /\ (/\ call[p].op = "delete_question"
                /\ \E q \in snap[1] : /\ q._id.n = call[p].question_id.n
                                      /\ q.author_id = call[p].user_id) => call[p].ret = "True"
            /\ (call[p].op = "create_answer" /\ call[p].ret # "None") =>
                  Doc(questions, call[p].question_id.n).answer_count
                     = Doc(snap[1], call[p].question_id.n).answer_count + 1

\* the answers stored for question document q
AnswersOf(q) == {a \in answers : a.question_id.n = q._id.n}

\* C24: between calls of create_answer, delete_answer and admin_delete_answer,
\* every question's answer_count equals the number of answer documents
\* stored for it, and is never negative.
C24_AnswerCountMatchesAnswers ==
    \A p \in {"p1"} :
        Done(p) =>
            \A q \in questions :
                /\ q.answer_count = Cardinality(AnswersOf(q))
                /\ q.answer_count >= 0

\* C25: when no accept_answer is in progress, a question has
\* has_accepted_answer set exactly when one of its stored answers has
\* is_accepted set; the flag does not outlive the accepted answer.
C25_FlagMatchesAcceptedAnswer ==
    \A p \in {"p1"} :
        Done(p) =>
            \A q \in questions :
                q.has_accepted_answer <=> \E a \in AnswersOf(q) : a.is_accepted

\* the question asked about in the latest get_similar_questions call
SimSource == CHOOSE d \in questions : d._id = ObjectId(sim.question_id)

\* the stored question behind the i-th returned item
SimHit(i) == CHOOSE d \in questions : str(d._id) = sim.ret[i]

\* C26: get_similar_questions takes the fallback exactly when the index call
\* gave no result (index unavailable, raising, question not indexed, response
\* malformed, or nothing but the question itself), and never when it gave at
\* least one result, even fewer than limit.
C26_FallbackIffNoIndexResult ==
    sim.path \in {"semantic", "fallback"} =>
        /\ sim.path = "fallback" <=> sim.hits = 0
        /\ sim.index \in {"unavailable", "raises", "unindexed", "malformed"} => sim.path = "fallback"
        /\ sim.hits >= 1 => sim.path = "semantic"

C26_Witness ==
    /\ sim.path = "semantic"
    /\ sim.hits >= 1
    /\ sim.hits < sim.limit

\* C27: the items the fallback returns all have a positive score, come in
\* order of non-increasing score, and of two items with equal score the one
\* created later comes first.
C27_FallbackOrderedByScoreThenRecency ==
    sim.path = "fallback" =>
        /\ \A i \in 1..Len(sim.ret) : Score(SimSource, SimHit(i)) > 0
        /\ \A i, j \in 1..Len(sim.ret) :
             i < j =>
                /\ Score(SimSource, SimHit(i)) >= Score(SimSource, SimHit(j))
                /\ Score(SimSource, SimHit(i)) = Score(SimSource, SimHit(j)) =>
                      SimHit(i).created_at >= SimHit(j).created_at

\* the other stored questions with a positive score against the question asked about
SimCandidates ==
    {d \in questions : d._id # SimSource._id /\ Score(SimSource, d) > 0}

\* C28: the fallback returns the limit best-scoring candidates of the store:
\* no question left out scores strictly higher than a returned one, and fewer
\* than limit items come back only when fewer than limit candidates exist.
C28_FallbackReturnsTopCandidates ==
    (sim.path = "fallback" /\ \E d \in questions : d._id = ObjectId(sim.question_id)) =>
        LET returned == {SimHit(i) : i \in 1..Len(sim.ret)}
        IN /\ \A d \in SimCandidates \ returned : \A r \in returned :
                 Score(SimSource, d) <= Score(SimSource, r)
           /\ Len(sim.ret) < sim.limit => Cardinality(SimCandidates) < sim.limit

\* C29: get_similar_questions returns a list only for a question that is in
\* the store; for an unknown id the call fails with NotFound instead.
C29_UnknownIdIsNotFound ==
    sim.path \in {"semantic", "fallback"} =>
        \E d \in questions : d._id = ObjectId(sim.question_id)

\* C30: no call of get_similar_questions, search_questions or
\* semantic_search_all changes a stored question, answer or vote (counters,
\* answer_count, acceptance fields), a notification or a user statistic.
C30_ReadsLeaveStoreUnchanged ==
    [][sim' # sim => UNCHANGED <<questions, answers, votes, notifications, user_stats>>]_vars

C30_Witness ==
    /\ sim.path = "search"
    /\ sim.ret # <<>>

====
